---- MODULE Spec2Model ----
(***************************************************************************)
(* Telemetry streaming: the system poller scheduler (systemPoller.js, the  *)
(* configWorker 'change' handler and the collection cycle) and the event   *)
(* listener (eventListener.js, start and the configHandler 'change'        *)
(* handler); the on-demand request (processClientRequest); the statistics  *)
(* normalizer (normalize.js: reduceData, getDataByKey, renameKeysInData,   *)
(* runCustomFunction, normalizeData, formatAsJson, normalizeEvent).        *)
(***************************************************************************)
EXTENDS Integers, Sequences, FiniteSets, Bags, TLC

\* ---------------------------------------------------------------- bounds
\* collection cycles that may be waiting for the device at the same time
MaxInflight == 2
\* servers created through start() over a run
MaxServers == 2
\* connections open on one server at the same time
MaxConns == 1
\* chunks handed to event.process over a run
MaxEvents == 2
\* milliseconds the clock moves on while collections are under way
MaxClock == 1

\* ------------------------------------------------------- poller: inputs
\* poller names of the declaration, in the order Object.keys yields them
Names == {"p1", "p2"}
KeyOrder == <<"p1", "p2">>

\* one poller's configuration: interval (seconds), enable, trace
PollerConfigs ==
    {[interval |-> 1, enable |-> TRUE, trace |-> TRUE],
     [interval |-> 2, enable |-> TRUE, trace |-> FALSE],
     [interval |-> 2, enable |-> FALSE, trace |-> TRUE]}

EmptyMap == [x \in {} |-> 0]

\* what the change event carries: present = config && config[CLASS_NAME],
\* pollers = config[CLASS_NAME]; the section exists when it names a poller
NoPollers == [present |-> FALSE, pollers |-> EmptyMap]
Snapshots ==
    {NoPollers} \cup
    {[present |-> TRUE, pollers |-> f] :
        f \in UNION {[S -> PollerConfigs] : S \in SUBSET Names \ {{}}}}

VARIABLES
    config,     \* the snapshot of the last change event (configWorker.config.parsed)
    pollerIDs,  \* registry: poller name -> timer handle
    timers,     \* live interval timers, each with the args safeProcess gets
    tracers,    \* tracer registry: the names that have a writer
    cycles,     \* bag of collection cycles waiting for the device
    events,     \* what the last handler logged, traced and dispatched, in order
    clock,      \* what new Date() reads
    listener,   \* eventListener's module variable: {} (null) or {server}
    servers,    \* servers created by start: id -> [port, state, by]
    conns,      \* open client connections per server
    received,   \* chunks handed to event.process, in order
    uncaught,   \* an exception escaped every handler (the process is gone)
    lsOut,      \* what the last listener-side handler logged and returned
    data,       \* normalize.js: the value handed to the function under call
    options,    \* normalize.js: the options (or key, or patterns) of the call
    op,         \* normalize.js: the function called, "none" before the call
    result,     \* normalize.js: what the call returned, or the error it threw
    invoked     \* normalize.js: the calls made on normalizeUtil, in order

pollerVars == <<config, pollerIDs, timers, tracers, cycles, events, clock>>
listenerVars == <<listener, servers, conns, received, uncaught, lsOut>>
normVars == <<data, options, op, result, invoked>>
vars == <<config, pollerIDs, timers, tracers, cycles, events, clock,
          listener, servers, conns, received, uncaught, lsOut,
          data, options, op, result, invoked>>

\* ------------------------------------------------------------- helpers
Remove(f, k) == [x \in DOMAIN f \ {k} |-> f[x]]
Put(f, k, v) == [x \in DOMAIN f \cup {k} |-> IF x = k THEN v ELSE f[x]]

\* one entry of `events`
Ev(e, k, n) == [ev |-> e, k |-> k, n |-> n]

\* args.tracer when the poller has no trace configured
NullTracer == [name |-> "null", live |-> FALSE]

\* --------------------------------------------- util.js (timers, tracer)
\* a live timer: the handle is (k, slot), args is what safeProcess gets
Timer(k, slot, args) ==
    [k |-> k, slot |-> slot, config |-> args.config, tracer |-> args.tracer]

\* the handle setInterval returns for a timer of k: one no live timer has
StartedId(tm, k) ==
    LET used == {t.slot : t \in {x \in tm : x.k = k}}
    IN  CHOOSE i \in 1..(Cardinality(used) + 1) :
            i \notin used /\ \A j \in 1..(i - 1) : j \in used

\* util.start: setInterval(func, interval, args)
UtilStart(tm, k, args) == tm \cup {Timer(k, StartedId(tm, k), args)}

\* util.stop: clearInterval(handle)
UtilStop(tm, k, slot) == {t \in tm : ~(t.k = k /\ t.slot = slot)}

\* util.update: the handle is reused (function and args swapped) or the
\* timer is cleared and a new one started
UpdatedId(tm, k, slot, reuseHandle) ==
    IF reuseHandle THEN slot ELSE StartedId(UtilStop(tm, k, slot), k)
UtilUpdate(tm, k, slot, args, reuseHandle) ==
    UtilStop(tm, k, slot) \cup {Timer(k, UpdatedId(tm, k, slot, reuseHandle), args)}
UpdateCalls(k, reuseHandle) ==
    IF reuseHandle THEN <<>>
    ELSE <<Ev("clearInterval", k, 0), Ev("setInterval", k, 0)>>

\* util.tracer.createFromConfig(CLASS_NAME, k, cfg): get or create the
\* writer keyed by class and name, and touch it (lastGetTouch = now);
\* tr maps the registered names to whether lastGetTouch >= tracersTimestamp
CreateFromConfig(tr, k, cfg) ==
    IF cfg.trace THEN Put(tr, k, TRUE) ELSE tr
CreateCalls(tr, k, cfg) ==
    IF cfg.trace /\ k \notin DOMAIN tr
    THEN <<Ev("createTracer", k, 0)>> ELSE <<>>

\* the handle createFromConfig returns (null without trace)
TracerOf(k, cfg) ==
    IF cfg.trace THEN [name |-> k, live |-> TRUE] ELSE NullTracer

\* util.tracer.remove(null, filter): the writers the filter selects are
\* stopped and unregistered
TracerRemove(tr, drop) == [k \in DOMAIN tr \ drop |-> tr[k]]

\* a reference to a writer that was removed refers to a stopped writer
Stale(ref, drop) ==
    IF ref.name \in drop THEN [ref EXCEPT !.live = FALSE] ELSE ref

RECURSIVE MapBag(_, _, _)
MapBag(bag, todo, drop) ==
    IF todo = {} THEN EmptyBag
    ELSE LET c == CHOOSE x \in todo : TRUE
             d == [c EXCEPT !.tracer = Stale(c.tracer, drop)]
         IN  MapBag(bag, todo \ {c}, drop) (+) [x \in {d} |-> bag[c]]

\* --------------------------------------- systemPoller.js: change handler
\* line 148: tracersTimestamp against the lastGetTouch of the writers that
\* exist: later when the clock moved since they were touched, else equal
Stamp(tr, clockMoved) == [k \in tr |-> ~clockMoved]

\* faulty variant: the filter forgets lastGetTouch: every writer of the class goes
Swept_All(tr) == DOMAIN tr

\* lines 183-184: the writers whose lastGetTouch < tracersTimestamp
Swept(tr) == {k \in DOMAIN tr : ~tr[k]}

\* faulty variant: the registry is emptied, the timers are not stopped
StopAll_KeepTimers(st) ==
    [st EXCEPT !.ids = EmptyMap,
               !.ev = st.ev \o <<Ev("Stopping all", "", 0)>>]

\* lines 152-158: no poller section, stop every poller
StopAll(st) ==
    [st EXCEPT !.ids = EmptyMap,
               !.tm = {t \in st.tm :
                          ~(t.k \in DOMAIN st.ids /\ st.ids[t.k] = t.slot)},
               !.ev = st.ev \o <<Ev("Stopping all", "", 0)>>]

\* faulty variant: the registry entry is deleted but the timer is not stopped
DisableBranch_NoStop(st, k, cfg) ==
    IF k \in DOMAIN st.ids
    THEN [st EXCEPT !.ids = Remove(st.ids, k),
                    !.ev = st.ev \o <<Ev("Disabling", k, 0)>>]
    ELSE st

\* lines 165-171: enable === false
DisableBranch(st, k, cfg) ==
    IF k \in DOMAIN st.ids
    THEN [st EXCEPT !.ids = Remove(st.ids, k),
                    !.tm = UtilStop(st.tm, k, st.ids[k]),
                    !.ev = st.ev \o <<Ev("Disabling", k, 0),
                                      Ev("clearInterval", k, 0)>>]
    ELSE st

\* faulty variant: the update starts a timer without clearing the recorded one
UpdateBranch_NoClear(st, k, cfg, reuseHandle) ==
    LET args == [config |-> cfg, tracer |-> TracerOf(k, cfg)]
    IN  [st EXCEPT !.tr = CreateFromConfig(st.tr, k, cfg),
                   !.ids = Put(st.ids, k, StartedId(st.tm, k)),
                   !.tm = UtilStart(st.tm, k, args),
                   !.ev = st.ev \o <<Ev("Updating", k, 0)>>
                            \o CreateCalls(st.tr, k, cfg)
                            \o <<Ev("setInterval", k, 0)>>]

\* faulty variant: the timer keeps the arguments it was started with
UpdateBranch_KeepArgs(st, k, cfg, reuseHandle) ==
    [st EXCEPT !.tr = CreateFromConfig(st.tr, k, cfg),
               !.ev = st.ev \o <<Ev("Updating", k, 0)>>
                        \o CreateCalls(st.tr, k, cfg)]

\* lines 172-175: the name is registered, update it
UpdateBranch(st, k, cfg, reuseHandle) ==
    LET args == [config |-> cfg, tracer |-> TracerOf(k, cfg)]
    IN  [st EXCEPT !.tr = CreateFromConfig(st.tr, k, cfg),
                   !.ids = Put(st.ids, k,
                               UpdatedId(st.tm, k, st.ids[k], reuseHandle)),
                   !.tm = UtilUpdate(st.tm, k, st.ids[k], args, reuseHandle),
                   !.ev = st.ev \o <<Ev("Updating", k, 0)>>
                            \o CreateCalls(st.tr, k, cfg)
                            \o UpdateCalls(k, reuseHandle)]

\* faulty variant: the name is registered but no timer is started
StartBranch_NoTimer(st, k, cfg) ==
    [st EXCEPT !.tr = CreateFromConfig(st.tr, k, cfg),
               !.ids = Put(st.ids, k, StartedId(st.tm, k)),
               !.ev = st.ev \o <<Ev("Starting", k, 0)>>
                        \o CreateCalls(st.tr, k, cfg)]

\* lines 176-180: the name is not registered, start it
StartBranch(st, k, cfg) ==
    LET args == [config |-> cfg, tracer |-> TracerOf(k, cfg)]
    IN  [st EXCEPT !.tr = CreateFromConfig(st.tr, k, cfg),
                   !.ids = Put(st.ids, k, StartedId(st.tm, k)),
                   !.tm = UtilStart(st.tm, k, args),
                   !.ev = st.ev \o <<Ev("Starting", k, 0)>>
                            \o CreateCalls(st.tr, k, cfg)
                            \o <<Ev("setInterval", k, 0)>>]

\* lines 161-181: the body of forEach for one key
ProcessKey(st, k, cfg, reuseHandle) ==
    IF cfg.enable = FALSE THEN DisableBranch(st, k, cfg)
    ELSE IF k \in DOMAIN st.ids THEN UpdateBranch(st, k, cfg, reuseHandle)
    ELSE StartBranch(st, k, cfg)

\* forEach over the keys in order; the state after one key is bound to a
\* value before the next key is processed
RECURSIVE ForEachKey(_, _, _, _)
ForEachKey(st, keys, pollers, reuse) ==
    IF keys = <<>> THEN st
    ELSE LET k == Head(keys)
         IN  CHOOSE r \in {ForEachKey(st2, Tail(keys), pollers, reuse) :
                              st2 \in {IF k \in DOMAIN pollers
                                       THEN ProcessKey(st, k, pollers[k], reuse)
                                       ELSE st}} : TRUE

\* lines 140-185: the whole handler, up to the sweep
OnChange(st, s, reuse, clockMoved) ==
    LET st1 == [st EXCEPT !.ev = <<Ev("change",
                                      IF s = config THEN "same" ELSE "new", 0)>>,
                          !.tr = Stamp(st.tr, clockMoved)]
    IN  IF ~s.present THEN StopAll(st1)
        ELSE ForEachKey(st1, KeyOrder, s.pollers, reuse)

\* the names whose handle util.update is asked to replace; reuse says
\* whether util.update keeps a valid handle or clears it and starts anew
Updated(s, ids) ==
    {k \in DOMAIN s.pollers \cap DOMAIN ids : s.pollers[k].enable}

\* the names whose writer the pass touches
Touched(s) ==
    {k \in DOMAIN s.pollers : s.pollers[k].enable /\ s.pollers[k].trace}

Reconcile ==
    \E s \in Snapshots :
    \E reuse \in (IF Updated(s, pollerIDs) = {} THEN {FALSE} ELSE BOOLEAN) :
    \E clockMoved \in (IF tracers \subseteq Touched(s) THEN {TRUE} ELSE BOOLEAN) :
    \E st \in {OnChange([ids |-> pollerIDs, tm |-> timers, tr |-> tracers,
                          ev |-> <<>>], s, reuse, clockMoved)} :
        LET drop == Swept(st.tr)
        IN  /\ config' = s
            /\ pollerIDs' = st.ids
            /\ tracers' = DOMAIN TracerRemove(st.tr, drop)
            /\ timers' = {[t EXCEPT !.tracer = Stale(t.tracer, drop)] : t \in st.tm}
            /\ cycles' = MapBag(cycles, BagToSet(cycles), drop)
            /\ events' = st.ev \o
                   (IF drop = {} THEN <<>> ELSE <<Ev("removeTracers", "", 0)>>)
            /\ UNCHANGED <<clock, listenerVars, normVars>>

\* ------------------------------------- systemPoller.js: collection cycle
\* lines 31-51: process captures args.config, args.tracer and args.process
\* and reads the clock (startTimestamp); for a timer args.process is not set
CycleOf(t) ==
    [k |-> t.k, config |-> t.config, tracer |-> t.tracer,
     process |-> TRUE, start |-> clock]

\* constants.EVENT_TYPES.SYSTEM_POLLER
SYSTEM_POLLER == "systemPoller"

\* faulty variant: the interval is read from the current configuration
PayloadInterval_Current(c) ==
    IF c.k \in DOMAIN config.pollers
    THEN config.pollers[c.k].interval ELSE c.config.interval

\* lines 55-59: telemetryServiceInfo.pollingInterval
PayloadInterval(c) == c.config.interval

\* faulty variant: the two timestamps are filed under each other's name
Payload_Swapped(c) ==
    [telemetryServiceInfo |-> [pollingInterval |-> PayloadInterval(c),
                               cycleStart |-> clock,
                               cycleEnd |-> c.start],
     telemetryEventCategory |-> SYSTEM_POLLER]

\* lines 53-61: the collected data with the service data injected
Payload(c) ==
    [telemetryServiceInfo |-> [pollingInterval |-> PayloadInterval(c),
                               cycleStart |-> c.start,
                               cycleEnd |-> clock],
     telemetryEventCategory |-> SYSTEM_POLLER]

\* line 72: dataPipeline.process(data, constants.EVENT_TYPES.SYSTEM_POLLER)
Dispatched(c) ==
    [ev |-> "dispatch", k |-> c.k, n |-> PayloadInterval(c),
     data |-> Payload(c), type |-> SYSTEM_POLLER]

\* line 129: the requester gets the data with status 200
Responded(c) ==
    [ev |-> "respond", k |-> c.k, n |-> 200, data |-> Payload(c)]

\* faulty variant: the data goes to the pipeline whatever args.process is
Piped_Always(c) == <<Dispatched(c)>>

\* lines 67-73: the pipeline is called unless args.process === false
Piped(c) == IF c.process = FALSE THEN <<>> ELSE <<Dispatched(c)>>

\* lines 69, 75 and 128-130: the promise of a request resolves with the data
Resolved(c) == IF c.process = FALSE THEN <<Responded(c)>> ELSE <<>>

\* faulty variant: the pipeline is called before the tracer is written
ResolveEvents_DispatchFirst(c) ==
    Piped(c)
    \o (IF c.tracer # NullTracer
           THEN <<Ev("trace", c.tracer.name, 0)>> ELSE <<>>)
    \o <<Ev("finished", c.k, 0)>>
    \o Resolved(c)

\* lines 52-76: the then callback of a cycle
ResolveEvents(c) ==
    (IF c.tracer # NullTracer
        THEN <<Ev("trace", c.tracer.name, 0)>> ELSE <<>>)
    \o Piped(c)
    \o <<Ev("finished", c.k, 0)>>
    \o Resolved(c)

\* faulty variant: the rejection is logged and the cycle goes on to the pipeline
RejectEvents_Dispatch(c) ==
    <<Ev("promiseException", c.k, 0), Dispatched(c)>>

\* lines 77-79, then lines 92-94 for a scheduled cycle (the rejection is
\* logged) and lines 131-135 for a request (logged, status 500)
RejectEvents(c) ==
    IF c.process = FALSE
    THEN <<Ev("request error", c.k, 0), Ev("respond", c.k, 500)>>
    ELSE <<Ev("promiseException", c.k, 0)>>

\* lines 88-97: collect threw before returning a promise
ThrowEvents(t) == <<Ev("exception", t.k, 0)>>

\* the interval timer fires: safeProcess(args), collect returns a promise
Fire(t) ==
    /\ t \in timers
    /\ BagCardinality(cycles) < MaxInflight
    /\ cycles' = cycles (+) SetToBag({CycleOf(t)})
    /\ events' = <<Ev("started", t.k, 0)>>
    /\ UNCHANGED <<config, pollerIDs, timers, tracers, clock>>
    /\ UNCHANGED <<listenerVars, normVars>>

\* the interval timer fires and collect throws synchronously
FireThrows(t) ==
    /\ t \in timers
    /\ events' = <<Ev("started", t.k, 0)>> \o ThrowEvents(t)
    /\ UNCHANGED <<config, pollerIDs, timers, tracers, cycles, clock>>
    /\ UNCHANGED <<listenerVars, normVars>>

CollectResolve(c) ==
    /\ BagIn(c, cycles)
    /\ cycles' = cycles (-) SetToBag({c})
    /\ events' = ResolveEvents(c)
    /\ UNCHANGED <<config, pollerIDs, timers, tracers, clock>>
    /\ UNCHANGED <<listenerVars, normVars>>

CollectReject(c) ==
    /\ BagIn(c, cycles)
    /\ cycles' = cycles (-) SetToBag({c})
    /\ events' = RejectEvents(c)
    /\ UNCHANGED <<config, pollerIDs, timers, tracers, clock>>
    /\ UNCHANGED <<listenerVars, normVars>>

\* time passes while collections are under way
Tick ==
    /\ clock < MaxClock
    /\ cycles # EmptyBag
    /\ clock' = clock + 1
    /\ UNCHANGED <<config, pollerIDs, timers, tracers, cycles, events>>
    /\ UNCHANGED <<listenerVars, normVars>>

\* ------------------------------ systemPoller.js: processClientRequest
\* the poller named in the path of a request ("" when the path has none)
RequestNames == Names \cup {""}

\* lines 114-119: configWorker.config.parsed[SYSTEM_POLLER_CLASS_NAME] or {}
systemPollers == IF config.present THEN config.pollers ELSE EmptyMap

\* lines 107-125: the status of a request that starts no collection
Refused(pollerName) ==
    IF pollerName = "" THEN 400
    ELSE IF pollerName \notin DOMAIN systemPollers THEN 404
    ELSE 0

\* lines 105-136: the request is refused, or process({config, process:
\* false}) starts a collection with no tracer
ClientRequest(pollerName) ==
    /\ IF Refused(pollerName) # 0
       THEN /\ events' = <<Ev("request", pollerName, 0),
                           Ev("respond", pollerName, Refused(pollerName))>>
            /\ UNCHANGED cycles
       ELSE /\ BagCardinality(cycles) < MaxInflight
            /\ cycles' = cycles (+)
                   SetToBag({[k |-> pollerName,
                              config |-> systemPollers[pollerName],
                              tracer |-> NullTracer,
                              process |-> FALSE, start |-> clock]})
            /\ events' = <<Ev("request", pollerName, 0)>>
    /\ UNCHANGED <<config, pollerIDs, timers, tracers, clock>>
    /\ UNCHANGED <<listenerVars, normVars>>

\* line 127: collect throws synchronously, nothing in processClientRequest
\* catches it and no response is sent
ClientRequestThrows(pollerName) ==
    /\ Refused(pollerName) = 0
    /\ events' = <<Ev("request", pollerName, 0),
                   Ev("request exception", pollerName, 0)>>
    /\ UNCHANGED <<config, pollerIDs, timers, tracers, cycles, clock>>
    /\ UNCHANGED <<listenerVars, normVars>>

\* ------------------------------------------------------ eventListener.js
\* "default" is DEFAULT_PORT; listen() throws at once on "invalid"
Ports == {"default", "invalid"}
\* the chunks a connection delivers, as sequences of characters: a line
\* with its newline, the same line cut in two, two lines at once
Chunks ==
    {<<"A", "=", "1", "\n">>,
     <<"A", "=">>,
     <<"1", "\n">>,
     <<"A", "=", "1", "\n", "B", "=", "2", "\n">>}

\* the server object net.createServer returns
StartedServer(sv) == Cardinality(DOMAIN sv) + 1

\* lines 53-55: listen throws at once on a port it cannot take, else the
\* bind is under way
ListenState(port) == IF port = "invalid" THEN "unbound" ELSE "binding"

\* faulty variant: start looks for a server of the port and creates none if found
StartServer_Lookup(sv, port, by) ==
    IF \E o \in DOMAIN sv : sv[o].port = port THEN sv
    ELSE Put(sv, StartedServer(sv),
             [port |-> port, by |-> by, state |-> ListenState(port)])

\* lines 31-64: start(port) as far as the servers go
StartServer(sv, port, by) ==
    Put(sv, StartedServer(sv),
        [port |-> port, by |-> by, state |-> ListenState(port)])

\* lines 60-62: what start logs, and line 63, what it returns
StartOut(sv, port, by) ==
    <<Ev("start", port, 0)>>
    \o (IF ListenState(port) = "unbound"
           THEN <<Ev("Unable to start event listener", port, 0)>> ELSE <<>>)
    \o <<Ev("return", port, StartedServer(sv))>>

\* faulty variant: the handler starts a listener on every notification
ListenerNeedsStart_Always == TRUE

\* line 69: !listener
ListenerNeedsStart == listener = {}

\* lines 67-79: the configHandler change handler
OnListenerChange ==
    /\ ~uncaught
    /\ IF ListenerNeedsStart
       THEN /\ Cardinality(DOMAIN servers) < MaxServers
            /\ servers' = StartServer(servers, "default", "handler")
            /\ listener' = {StartedServer(servers)}
            /\ conns' = Put(conns, StartedServer(servers), 0)
            /\ lsOut' = <<Ev("changeEvent", "", 0),
                          Ev("Starting listener", "default", 0)>>
                        \o StartOut(servers, "default", "handler")
       ELSE /\ lsOut' = <<Ev("changeEvent", "", 0),
                          Ev("Already listening", "default", 0)>>
            /\ UNCHANGED <<servers, listener, conns>>
    /\ UNCHANGED <<received, uncaught>>
    /\ UNCHANGED <<pollerVars, normVars>>

\* start, exported by the module, called by another module
StartCall(port) ==
    /\ ~uncaught
    /\ Cardinality(DOMAIN servers) < MaxServers
    /\ servers' = StartServer(servers, port, "api")
    /\ conns' = Put(conns, StartedServer(servers), 0)
    /\ lsOut' = StartOut(servers, port, "api")
    /\ UNCHANGED <<listener, received, uncaught>>
    /\ UNCHANGED <<pollerVars, normVars>>

\* lines 53-55: the port is bound, the listen callback runs
Listening(id) ==
    /\ ~uncaught
    /\ servers[id].state = "binding"
    /\ \A o \in DOMAIN servers :
           ~(servers[o].state = "listening" /\ servers[o].port = servers[id].port)
    /\ servers' = [servers EXCEPT ![id].state = "listening"]
    /\ lsOut' = <<Ev("Listener started", servers[id].port, id)>>
    /\ UNCHANGED <<listener, conns, received, uncaught>>
    /\ UNCHANGED <<pollerVars, normVars>>

\* lines 57-59: the server emits 'error' (the port is in use, a socket
\* error); the handler throws inside the emitter
ServerError(id) ==
    /\ ~uncaught
    /\ servers[id].state \in {"binding", "listening"}
    /\ servers' = [servers EXCEPT ![id].state = "error"]
    /\ uncaught' = TRUE
    /\ lsOut' = <<Ev("error", servers[id].port, id)>>
    /\ UNCHANGED <<listener, conns, received>>
    /\ UNCHANGED <<pollerVars, normVars>>

\* line 41: a client connects
Connect(id) ==
    /\ ~uncaught
    /\ servers[id].state = "listening"
    /\ conns[id] < MaxConns
    /\ conns' = [conns EXCEPT ![id] = @ + 1]
    /\ lsOut' = <<>>
    /\ UNCHANGED <<listener, servers, received, uncaught>>
    /\ UNCHANGED <<pollerVars, normVars>>

\* lines 43-46: a chunk arrives, event.process(String(data))
Data(id, chunk) ==
    /\ ~uncaught
    /\ conns[id] > 0
    /\ Len(received) < MaxEvents
    /\ received' = Append(received, chunk)
    /\ lsOut' = <<>>
    /\ UNCHANGED <<listener, servers, conns, uncaught>>
    /\ UNCHANGED <<pollerVars, normVars>>

\* lines 48-50: the client closes the connection
End(id) ==
    /\ ~uncaught
    /\ conns[id] > 0
    /\ conns' = [conns EXCEPT ![id] = @ - 1]
    /\ lsOut' = <<>>
    /\ UNCHANGED <<listener, servers, received, uncaught>>
    /\ UNCHANGED <<pollerVars, normVars>>

\* ------------------------------------------------- normalize.js: values
\* A JSON value carries its type in its field name.  A string is the
\* sequence of its pieces, an object key likewise: the pieces of Tokens are
\* the substrings the normalizer looks for, none contains another.
Str(s) == [str |-> s]
Num(n) == [num |-> n]
Bool(b) == [bool |-> b]
Null == [null |-> TRUE]
Obj(f) == [obj |-> f]
Arr(s) == [arr |-> s]
IsStr(v) == DOMAIN v = {"str"}
IsNum(v) == DOMAIN v = {"num"}
IsBool(v) == DOMAIN v = {"bool"}
IsNull(v) == DOMAIN v = {"null"}
IsObj(v) == DOMAIN v = {"obj"}
IsArr(v) == DOMAIN v = {"arr"}

\* a TypeError thrown by the call (a property read of null, 'in' on null)
TypeError == [raise |-> "TypeError"]
Raised(v) == DOMAIN v = {"raise"}

\* JavaScript truthiness of a value
Truthy(v) ==
    IF IsNull(v) THEN FALSE
    ELSE IF IsStr(v) THEN v.str # <<>>
    ELSE IF IsNum(v) THEN v.num # 0
    ELSE IF IsBool(v) THEN v.bool
    ELSE TRUE

Tokens ==
    <<"0", "1", "5", "a/", "b", "color", "description", "entries",
      "https://localhost/", "mgmt/tm/", "missing key", "name", "nestedStats",
      "sys/x/0.0/stats", "value", ".">>
TokenRank(t) == CHOOSE i \in DOMAIN Tokens : Tokens[i] = t

\* the order Object.keys yields the keys of an object in: objects are
\* written with their keys in this order
RECURSIVE KeyBefore(_, _)
KeyBefore(a, b) ==
    IF a = <<>> THEN b # <<>>
    ELSE IF b = <<>> THEN FALSE
    ELSE IF Head(a) = Head(b) THEN KeyBefore(Tail(a), Tail(b))
    ELSE TokenRank(Head(a)) < TokenRank(Head(b))
LastKey(S) == CHOOSE k \in S : \A j \in S : j = k \/ KeyBefore(j, k)

\* the key of index i of an array or a string (i counts from 1 here)
IndexKey(i) == <<ToString(i - 1)>>

\* Object.keys(v) and v[k] for a value that is not null
OwnKeys(v) ==
    IF IsObj(v) THEN DOMAIN v.obj
    ELSE IF IsArr(v) THEN {IndexKey(i) : i \in DOMAIN v.arr}
    ELSE IF IsStr(v) THEN {IndexKey(i) : i \in DOMAIN v.str}
    ELSE {}
OwnValue(v, k) ==
    IF IsObj(v) THEN v.obj[k]
    ELSE IF IsArr(v) THEN v.arr[CHOOSE i \in DOMAIN v.arr : IndexKey(i) = k]
    ELSE Str(<<v.str[CHOOSE i \in DOMAIN v.str : IndexKey(i) = k]>>)

\* --------------------------------------------- normalize.js: reduceData
\* an option that is not given, and one that is
No == [set |-> FALSE]
Some(v) == [set |-> TRUE, v |-> v]

\* faulty variant: a well known key is missing from the list
KeysToReduce_NoDescription == {<<"nestedStats">>, <<"value">>, <<"color">>}
\* line 145
KeysToReduce ==
    {<<"nestedStats">>, <<"value">>, <<"description">>, <<"color">>}

\* lines 146-151: data[key] is defined for a well known key and data has
\* one key
HasKeyToReduce(d) ==
    /\ IsObj(d)
    /\ Cardinality(DOMAIN d.obj) = 1
    /\ DOMAIN d.obj \subseteq KeysToReduce
ItemToReduce(d) == d.obj[CHOOSE k \in DOMAIN d.obj : k \in KeysToReduce]

\* line 154: data.entries && !Array.isArray(data)
HasEntries(d) ==
    /\ IsObj(d)
    /\ <<"entries">> \in DOMAIN d.obj
    /\ Truthy(d.obj[<<"entries">>])

\* String.prototype.replace(piece, ''): the first occurrence goes
RemoveFirst(k, piece) ==
    IF \E i \in DOMAIN k : k[i] = piece
    THEN LET at == CHOOSE i \in DOMAIN k :
                       k[i] = piece /\ \A j \in 1..(i - 1) : k[j] # piece
         IN  SubSeq(k, 1, at - 1) \o SubSeq(k, at + 1, Len(k))
    ELSE k

\* line 160
StripKey(k) == RemoveFirst(RemoveFirst(k, "https://localhost/"), "mgmt/tm/")

\* lines 155-162: ret[kM] = v for every key of data.entries, in order
ExpandEntries(entries) ==
    LET keys == OwnKeys(entries)
    IN  Obj([kM \in {StripKey(k) : k \in keys} |->
                OwnValue(entries, LastKey({k \in keys : StripKey(k) = kM}))])

\* line 171: catm && catm.keyName
ConvertRequired(o) ==
    o.convertArrayToMap.set /\ o.convertArrayToMap.v.keyName # <<>>

\* util.convertArrayToMap(data, keyName, {keyPrefix}): the object that has
\* every element under its (prefixed) key field value
MapKey(el, keyName, keyPrefix) == keyPrefix \o el.obj[keyName].str
convertArrayToMap(arr, keyName, keyPrefix) ==
    LET at(key) == CHOOSE i \in DOMAIN arr :
                       /\ MapKey(arr[i], keyName, keyPrefix) = key
                       /\ \A j \in DOMAIN arr :
                              MapKey(arr[j], keyName, keyPrefix) = key => j <= i
    IN  Obj([key \in {MapKey(arr[i], keyName, keyPrefix) : i \in DOMAIN arr}
                |-> arr[at(key)]])

RECURSIVE reduceData(_, _)

\* faulty variant: the wrapped value is returned as it is
ReducedItem_Asis(d, o) == ItemToReduce(d)
\* line 149: the wrapped value, reduced
ReducedItem(d, o) == reduceData(ItemToReduce(d), o)

\* faulty variant: the expanded entries are returned as they are
ReducedEntries_Asis(d, o) == ExpandEntries(d.obj[<<"entries">>])
\* line 163: the expanded entries, reduced again
ReducedEntries(d, o) == reduceData(ExpandEntries(d.obj[<<"entries">>]), o)

\* faulty variant: the elements are included as they are
ReducedElements_Asis(d, o) == d.arr
\* lines 176-178: every element reduced, in place
ReducedElements(d, o) == [i \in DOMAIN d.arr |-> reduceData(d.arr[i], o)]

\* faulty variant: the values are included as they are
ReducedValues_Asis(d, o) == d.obj
\* lines 181-184: every value reduced, under its key
ReducedValues(d, o) == [k \in DOMAIN d.obj |-> reduceData(d.obj[k], o)]

\* lines 141-192; a TypeError thrown in a nested call ends the whole call
reduceData(d, o) ==
    IF IsNull(d) THEN TypeError
    ELSE IF HasKeyToReduce(d) THEN ReducedItem(d, o)
    ELSE IF HasEntries(d) THEN ReducedEntries(d, o)
    ELSE IF IsArr(d)
    THEN IF ConvertRequired(o)
         THEN reduceData(convertArrayToMap(d.arr, o.convertArrayToMap.v.keyName,
                             o.convertArrayToMap.v.keyNamePrefix), o)
         ELSE LET r == ReducedElements(d, o)
              IN  IF \E i \in DOMAIN r : Raised(r[i]) THEN TypeError ELSE Arr(r)
    ELSE IF IsObj(d)
    THEN LET r == ReducedValues(d, o)
         IN  IF \E k \in DOMAIN r : Raised(r[k]) THEN TypeError ELSE Obj(r)
    ELSE d

\* -------------------------------------------- normalize.js: getDataByKey
\* constants.STATS_KEY_SEP
STATS_KEY_SEP == "."

\* String.prototype.split(separator)
RECURSIVE Split(_, _)
Split(s, sep) ==
    IF \E i \in DOMAIN s : s[i] = sep
    THEN LET at == CHOOSE i \in DOMAIN s :
                       s[i] = sep /\ \A j \in 1..(i - 1) : s[j] # sep
         IN  <<SubSeq(s, 1, at - 1)>> \o Split(SubSeq(s, at + 1, Len(s)), sep)
    ELSE <<s>>

MissingKey == Str(<<"missing key">>)

\* line 80: typeof ret === 'object' && i in ret; 'in' throws on null
StepInto(ret, i) ==
    IF IsNull(ret) THEN TypeError
    ELSE IF (IsObj(ret) \/ IsArr(ret)) /\ i \in OwnKeys(ret)
    THEN OwnValue(ret, i)
    ELSE MissingKey

\* lines 79-86: keys.forEach
RECURSIVE Walk(_, _)
Walk(ret, keys) ==
    IF keys = <<>> \/ Raised(ret) THEN ret
    ELSE Walk(StepInto(ret, Head(keys)), Tail(keys))

\* lines 75-88
getDataByKey(d, key) == Walk(d, Split(key, STATS_KEY_SEP))

\* ---------------------------------------- normalize.js: renameKeysInData
\* a pattern table is the sequence of its entries in declared order; an
\* entry has the trigger (the table key), the regular expression and the
\* capture group (0 for an entry that is the bare expression).  The
\* expression lit(.*) is the record [lit |-> lit].
Occurs(piece, k) ==
    \E i \in 1..(Len(k) - Len(piece) + 1) : SubSeq(k, i, i + Len(piece) - 1) = piece
FirstAt(piece, k) ==
    CHOOSE i \in 1..(Len(k) - Len(piece) + 1) :
        /\ SubSeq(k, i, i + Len(piece) - 1) = piece
        /\ \A j \in 1..(i - 1) : SubSeq(k, j, j + Len(piece) - 1) # piece

\* String.prototype.match: null (No) or the groups of the leftmost match
Match(k, regex) ==
    IF Occurs(regex.lit, k)
    THEN Some(<<SubSeq(k, FirstAt(regex.lit, k), Len(k)),
                SubSeq(k, FirstAt(regex.lit, k) + Len(regex.lit), Len(k))>>)
    ELSE No

\* faulty variant: the expression is tried on every key
Includes_Always(k, pK) == TRUE
\* line 108: k.includes(pK)
Includes(k, pK) == Occurs(pK, k)

\* lines 110-115: the entry renames the key
Renames(k, e) == Includes(k, e.trigger) /\ Match(k, e.regex).set
\* checkForMatch[group]
GroupOf(k, e) == Match(k, e.regex).v[e.group + 1]

\* lines 104-118: every entry is tried, each match overwrites renamedKey
RenamedKey(k, patterns) ==
    LET hits == {i \in DOMAIN patterns : Renames(k, patterns[i])}
    IN  IF hits = {} THEN k
        ELSE GroupOf(k, patterns[CHOOSE i \in hits : \A j \in hits : j <= i])

RECURSIVE renameKeysInData(_, _)

\* lines 119-123: ret[renamedKey] = renameKeysInData(data[k], patterns)
RenamedValues(d, patterns) ==
    [n \in {RenamedKey(k, patterns) : k \in DOMAIN d.obj} |->
        renameKeysInData(
            d.obj[LastKey({k \in DOMAIN d.obj : RenamedKey(k, patterns) = n})],
            patterns)]

\* lines 98-130; Object.keys(null) throws, in a nested call too, also for
\* a value that a later key overwrites
renameKeysInData(d, patterns) ==
    IF IsNull(d) THEN TypeError
    ELSE IF IsObj(d)
    THEN IF \E k \in DOMAIN d.obj : Raised(renameKeysInData(d.obj[k], patterns))
         THEN TypeError
         ELSE Obj(RenamedValues(d, patterns))
    ELSE d

\* ------------------------------------------------ util.filterDataByKeys
RECURSIVE filterDataByKeys(_, _)
filterDataByKeys(d, keys) ==
    IF IsObj(d)
    THEN Obj([k \in DOMAIN d.obj \cap keys |-> filterDataByKeys(d.obj[k], keys)])
    ELSE IF IsArr(d)
    THEN Arr([i \in DOMAIN d.arr |-> filterDataByKeys(d.arr[i], keys)])
    ELSE d

\* ------------------------------------------- normalize.js: formatAsJson
\* An event line is a sequence of pieces: the characters ',', '=', '"' and
\* the newline, and the texts between them.

\* String.prototype.replace(/piece/g, ''): every occurrence goes
RemoveAll(s, piece) == SelectSeq(s, LAMBDA c : c # piece)

\* line 30: i.split('=')
keySplit(i) == Split(i, "=")
\* line 31: keySplit[1] is undefined, .replace on it throws a TypeError
Malformed(i) == Len(keySplit(i)) < 2
\* line 31: keySplit[1].replace(/"/g, '')
keyValue(i) == Str(RemoveAll(keySplit(i)[2], "\""))

\* lines 29-33: ret[keySplit[0]] = keyValue for each segment, until one
\* throws
RECURSIVE Formatted(_, _)
Formatted(baseSplit, ret) ==
    IF baseSplit = <<>> \/ Malformed(Head(baseSplit)) THEN ret
    ELSE Formatted(Tail(baseSplit),
                   (keySplit(Head(baseSplit))[1] :> keyValue(Head(baseSplit)))
                       @@ ret)

\* lines 23-38: what is not a string has no replace, the TypeError is
\* caught as the one of a malformed segment is, and ret is returned
formatAsJson(d) ==
    IF IsStr(d)
    THEN Obj(Formatted(Split(RemoveAll(d.str, "\n"), ","), EmptyMap))
    ELSE Obj(EmptyMap)

\* lines 201-204
normalizeEvent(d) == formatAsJson(d)

\* --------------------------------------- normalize.js: runCustomFunction
\* an Error thrown by the call
Error(msg) == [raise |-> msg]

\* normalizeUtil: the names of the transform functions, and the one that
\* throws on what it is given
TransformNames == {"transform", "throwing"}
Throws(name) == name = "throwing"
\* what the function named name returns for args: the application itself
Applied(name, args) == [applied |-> name, args |-> args]

\* line 61: normalizeUtil[options.func] is a function: a function of the
\* table, or one the table object inherits from Object.prototype
ObjectPrototypeNames == {"toString"}
Callable(name) == name \in TransformNames \cup ObjectPrototypeNames

\* faulty variant: the named argument data is let through
ReservedArgument_Never(args) == FALSE
\* lines 54-58: a named argument is called data
ReservedArgument(args) == "data" \in DOMAIN args

\* lines 51-59: args = {data} and the named arguments
Arguments(d, args) ==
    [k \in DOMAIN args \cup {"data"} |-> IF k = "data" THEN d ELSE args[k]]

\* faulty variant: the catch block returns instead of throwing
Rethrown_Swallowed(e) == Null
\* lines 62-64: throw new Error(`runCustomFunction failed: ${e}`)
Rethrown(e) ==
    IF e = "TypeError" THEN Error("runCustomFunction failed: TypeError")
    ELSE Error("runCustomFunction failed: thrown")

\* lines 50-65; o.args is the map of the named arguments
runCustomFunction(d, o) ==
    IF ReservedArgument(o.args)
    THEN Error("Named argument (data) is not allowed")
    ELSE IF ~Callable(o.func) THEN Rethrown("TypeError")
    ELSE IF Throws(o.func) THEN Rethrown("thrown")
    ELSE Applied(o.func, Arguments(d, o.args))

\* line 61: the calls runCustomFunction makes on normalizeUtil
Invoked(d, o) ==
    IF ~ReservedArgument(o.args) /\ Callable(o.func)
    THEN <<[name |-> o.func, args |-> Arguments(d, o.args)]>>
    ELSE <<>>

\* ------------------------------------------- normalize.js: normalizeData
\* line 225: the key is given and truthy (a string that is empty is not;
\* a list, a table and an object always are)
Given(opt) == opt.set /\ opt.v # <<>>

\* lines 225-234, one step each; a step after an error does not run
ByKey(ret, o) ==
    IF Raised(ret) \/ ~Given(o.key) THEN ret ELSE getDataByKey(ret, o.key.v)
ByFilter(ret, o) ==
    IF Raised(ret) \/ ~o.filterByKeys.set THEN ret
    ELSE filterDataByKeys(ret, o.filterByKeys.v)
ByRename(ret, o) ==
    IF Raised(ret) \/ ~o.renameKeysByPattern.set THEN ret
    ELSE renameKeysInData(ret, o.renameKeysByPattern.v)
ByCustom(ret, o) ==
    IF Raised(ret) \/ ~o.runCustomFunction.set THEN ret
    ELSE runCustomFunction(ret, [func |-> o.runCustomFunction.v.name,
                                 args |-> o.runCustomFunction.v.args])

\* lines 228-234: the calls on normalizeUtil of the last step
CustomCalls(ret, o) ==
    IF Raised(ret) \/ ~o.runCustomFunction.set THEN <<>>
    ELSE Invoked(ret, [func |-> o.runCustomFunction.v.name,
                       args |-> o.runCustomFunction.v.args])

\* lines 221-227: the data the last step is given
BeforeCustom(d, o) ==
    ByRename(ByFilter(ByKey(
        reduceData(d, [convertArrayToMap |-> o.convertArrayToMap]), o), o), o)

\* faulty variant: the keys are renamed before they are filtered
normalizeData_RenameFirst(d, o) ==
    ByCustom(ByFilter(ByRename(ByKey(
        reduceData(d, [convertArrayToMap |-> o.convertArrayToMap]), o), o), o), o)
\* lines 219-237
normalizeData(d, o) ==
    ByCustom(ByRename(ByFilter(ByKey(
        reduceData(d, [convertArrayToMap |-> o.convertArrayToMap]), o), o), o), o)

\* ------------------------------------------------ normalize.js: inputs
\* nesting depth of the values handed to the functions
MaxDepth == 2

Scalars == {Str(<<"5">>), Num(0), Bool(TRUE), Null}

InputKeys ==
    {<<"value">>, <<"description">>, <<"entries">>, <<"b">>,
     <<"https://localhost/", "mgmt/tm/", "b">>, <<"a/", "mgmt/tm/", "b">>}

\* an array element that carries the key field
Named(t) == Obj(<<"name">> :> Str(<<"5">>) @@ <<"b">> :> t)

RECURSIVE Trees(_)
Trees(depth) ==
    IF depth = 0 THEN Scalars
    ELSE LET sub == Trees(depth - 1)
         IN  sub
             \cup {Obj(k :> t) : k \in InputKeys, t \in sub}
             \cup {Obj(<<"value">> :> t @@ <<"description">> :> Str(<<"5">>)) : t \in sub}
             \cup {Obj(<<"b">> :> t @@ <<"https://localhost/", "b">> :> Str(<<"5">>)) : t \in sub}
             \cup {Named(t) : t \in sub}
             \cup {Arr(<<t>>) : t \in sub}
             \cup {Arr(<<t, Obj(<<"name">> :> Str(<<"b">>))>>) : t \in sub}

\* the statistics of one device query: an entries map under a wrapper
DeviceStats ==
    Obj(<<"entries">> :>
        Obj(<<"https://localhost/", "mgmt/tm/", "sys/x/0.0/stats">> :>
            Obj(<<"nestedStats">> :>
                Obj(<<"entries">> :>
                    Obj(<<"value">> :> Obj(<<"description">> :> Str(<<"5">>)))))))

InputTrees == Trees(MaxDepth) \cup {DeviceStats}

\* the event lines: up to MaxFields fields joined by commas; a field is
\* KEY="value", one has no '=', one has a '=' in the value, one a comma in
\* it (the attack_type of the ASM example), one ends the line
MaxFields == 2
Field(k, v) == <<k, "=", "\"">> \o v \o <<"\"">>
EventFields ==
    {Field("A", <<"1">>),
     Field("B", <<"2">>),
     <<"Bnoequals">>,
     Field("A", <<"x", "=", "y">>),
     Field("attack_type", <<"Detection Evasion", ",", "Path Traversal">>),
     Field("geo_location", <<"US">>) \o <<"\n">>}
RECURSIVE LinesOf(_)
LinesOf(n) ==
    IF n = 0 THEN {<<>>}
    ELSE IF n = 1 THEN EventFields
    ELSE {f \o <<",">> \o l : f \in EventFields, l \in LinesOf(n - 1)}
EventLines == UNION {LinesOf(n) : n \in 0..MaxFields}

\* what a call is given: a tree of statistics or an event line
Inputs == InputTrees \cup {Str(l) : l \in EventLines}

\* every array of the value has elements that carry the key field
RECURSIVE Keyed(_, _)
Keyed(d, keyName) ==
    IF IsObj(d) THEN \A k \in DOMAIN d.obj : Keyed(d.obj[k], keyName)
    ELSE IF IsArr(d)
    THEN \A i \in DOMAIN d.arr :
            /\ IsObj(d.arr[i])
            /\ keyName \in DOMAIN d.arr[i].obj
            /\ IsStr(d.arr[i].obj[keyName])
            /\ Keyed(d.arr[i], keyName)
    ELSE TRUE

NoOptions ==
    [convertArrayToMap |-> No, key |-> No, filterByKeys |-> No,
     renameKeysByPattern |-> No, runCustomFunction |-> No]

ArrayToMapOptions ==
    {No,
     Some([keyName |-> <<>>, keyNamePrefix |-> <<>>]),
     Some([keyName |-> <<"name">>, keyNamePrefix |-> <<>>]),
     Some([keyName |-> <<"name">>, keyNamePrefix |-> <<"a/">>])}

KeyPaths ==
    {<<"b">>, <<"b", ".", "b">>, <<"0", ".", "b">>, <<"name", ".", "b", ".", "b">>}

Entry(trigger, lit, group) ==
    [trigger |-> trigger, regex |-> [lit |-> lit], group |-> group]
PatternTables ==
    {<<Entry(<<"a/">>, <<"mgmt/tm/">>, 0)>>,
     <<Entry(<<"a/">>, <<"mgmt/tm/">>, 1)>>,
     <<Entry(<<"b">>, <<"https://localhost/">>, 1)>>,
     <<Entry(<<"b">>, <<"mgmt/tm/">>, 1), Entry(<<"mgmt/tm/">>, <<"a/">>, 0)>>}

AllowLists == {{<<"a/", "mgmt/tm/", "b">>, <<"description">>}}

\* the named arguments of a custom function: none, one, one called data
NamedArguments ==
    {EmptyMap, [k \in {"x"} |-> Num(0)], [k \in {"data"} |-> Num(0)]}
\* a function of the table, one of them that throws, a property the table
\* inherits, a name that is nowhere
FunctionNames == {"transform", "throwing", "toString", "unknown"}
CustomFunctions ==
    {[name |-> n, args |-> a] : n \in FunctionNames, a \in NamedArguments}

\* the options of a normalizeData call: each one given or not
NormalizeOptions ==
    {[convertArrayToMap |-> c, key |-> k, filterByKeys |-> f,
      renameKeysByPattern |-> r, runCustomFunction |-> x] :
        c \in {No, Some([keyName |-> <<"name">>, keyNamePrefix |-> <<>>])},
        k \in {No, Some(<<"b">>)},
        f \in {No} \cup {Some(a) : a \in AllowLists},
        r \in {No, Some(<<Entry(<<"a/">>, <<"mgmt/tm/">>, 1)>>)},
        x \in {No} \cup {Some([name |-> "transform", args |-> a]) :
                              a \in {EmptyMap, [k \in {"data"} |-> Num(0)]}}}

\* ----------------------------------------------- normalize.js: the calls
Call(name, o, r, calls) ==
    /\ op = "none"
    /\ op' = name
    /\ options' = o
    /\ result' = r
    /\ invoked' = calls
    /\ UNCHANGED <<data, pollerVars, listenerVars>>

ReduceDataCall(c) ==
    LET o == [NoOptions EXCEPT !.convertArrayToMap = c]
    IN  /\ ConvertRequired(o) => Keyed(data, c.v.keyName)
        /\ Call("reduceData", o, reduceData(data, o), <<>>)

GetDataByKeyCall(key) ==
    Call("getDataByKey", [NoOptions EXCEPT !.key = Some(key)],
         getDataByKey(data, key), <<>>)

RenameKeysInDataCall(patterns) ==
    Call("renameKeysInData",
         [NoOptions EXCEPT !.renameKeysByPattern = Some(patterns)],
         renameKeysInData(data, patterns), <<>>)

NormalizeEventCall ==
    Call("normalizeEvent", NoOptions, normalizeEvent(data), <<>>)

RunCustomFunctionCall(c) ==
    LET o == [func |-> c.name, args |-> c.args]
    IN  Call("runCustomFunction",
             [NoOptions EXCEPT !.runCustomFunction = Some(c)],
             runCustomFunction(data, o), Invoked(data, o))

NormalizeDataCall(o) ==
    /\ ConvertRequired(o) => Keyed(data, o.convertArrayToMap.v.keyName)
    /\ Call("normalizeData", o, normalizeData(data, o),
            CustomCalls(BeforeCustom(data, o), o))

\* the scheduler and the listener after the modules are loaded
Loaded ==
    /\ config = NoPollers
    /\ pollerIDs = EmptyMap
    /\ timers = {}
    /\ tracers = {}
    /\ cycles = EmptyBag
    /\ events = <<>>
    /\ clock = 0
    /\ listener = {}
    /\ servers = EmptyMap
    /\ conns = EmptyMap
    /\ received = <<>>
    /\ uncaught = FALSE
    /\ lsOut = <<>>

Init ==
    /\ Loaded
    /\ data = Null
    /\ options = NoOptions
    /\ op = "none"
    /\ result = Null
    /\ invoked = <<>>

Next ==
    \/ Reconcile
    \/ \E t \in timers : Fire(t)
    \/ \E t \in timers : FireThrows(t)
    \/ \E c \in BagToSet(cycles) : CollectResolve(c)
    \/ \E c \in BagToSet(cycles) : CollectReject(c)

Spec == Init /\ [][Next]_vars

ListenerNext ==
    \/ OnListenerChange
    \/ \E p \in Ports : StartCall(p)
    \/ \E id \in DOMAIN servers : Listening(id)
    \/ \E id \in DOMAIN servers : ServerError(id)
    \/ \E id \in DOMAIN servers : Connect(id)
    \/ \E id \in DOMAIN servers, c \in Chunks : Data(id, c)
    \/ \E id \in DOMAIN servers : End(id)

ListenerSpec == Init /\ [][ListenerNext]_vars

\* lines 140-185: the registry, the timers and the writers after the
\* change handler has run on snapshot s
Pass(st, s, reuse, clockMoved) ==
    LET st1 == [ids |-> st.ids, tm |-> st.tm,
                tr |-> Stamp(st.tr, clockMoved), ev |-> <<>>]
        st2 == IF ~s.present THEN StopAll(st1)
               ELSE ForEachKey(st1, KeyOrder, s.pollers, reuse)
        drop == Swept(st2.tr)
    IN  [ids |-> st2.ids,
         tm |-> {[t EXCEPT !.tracer = Stale(t.tracer, drop)] : t \in st2.tm},
         tr |-> DOMAIN TracerRemove(st2.tr, drop)]

\* the pollers at work with no change event to come: the state after the
\* change handler has run on a snapshot, and on a second one
CycleInit ==
    \E s1 \in Snapshots, s2 \in Snapshots, reuse \in BOOLEAN, clockMoved \in BOOLEAN :
    \E st \in {Pass(Pass([ids |-> EmptyMap, tm |-> {}, tr |-> {}],
                         s1, FALSE, TRUE), s2, reuse, clockMoved)} :
        /\ config = s2
        /\ pollerIDs = st.ids
        /\ timers = st.tm
        /\ tracers = st.tr
        /\ cycles = EmptyBag
        /\ events = <<>>
        /\ clock = 0
        /\ listener = {}
        /\ servers = EmptyMap
        /\ conns = EmptyMap
        /\ received = <<>>
        /\ uncaught = FALSE
        /\ lsOut = <<>>
        /\ data = Null
        /\ options = NoOptions
        /\ op = "none"
        /\ result = Null
        /\ invoked = <<>>

\* the timer of poller k fires
TimerFires(k) == \E t \in timers : t.k = k /\ (Fire(t) \/ FireThrows(t))
\* a collection ends: the device answers or the request to it fails
CollectionEnds ==
    \E c \in BagToSet(cycles) : CollectResolve(c) \/ CollectReject(c)

CycleNext ==
    \/ \E k \in Names : TimerFires(k)
    \/ CollectionEnds
    \/ Tick
    \/ \E pollerName \in RequestNames : ClientRequest(pollerName)
    \/ \E pollerName \in RequestNames : ClientRequestThrows(pollerName)

CycleSpec == CycleInit /\ [][CycleNext]_vars

\* setInterval fires the callback of a live timer again and again, and the
\* device client ends every collection it started
FairCycleSpec ==
    /\ CycleSpec
    /\ \A k \in Names : SF_vars(TimerFires(k))
    /\ WF_vars(CollectionEnds)

\* one call of a function of normalize.js on a value
NormalizeInit ==
    /\ Loaded
    /\ data \in Inputs
    /\ options = NoOptions
    /\ op = "none"
    /\ result = Null
    /\ invoked = <<>>

NormalizeNext ==
    \/ \E c \in ArrayToMapOptions : ReduceDataCall(c)
    \/ \E key \in KeyPaths : GetDataByKeyCall(key)
    \/ \E patterns \in PatternTables : RenameKeysInDataCall(patterns)
    \/ \E o \in NormalizeOptions : NormalizeDataCall(o)
    \/ \E c \in CustomFunctions : RunCustomFunctionCall(c)
    \/ NormalizeEventCall

NormalizeSpec == NormalizeInit /\ [][NormalizeNext]_vars

\* ------------------------------------------------------------ properties
EnabledNames(s) == {k \in DOMAIN s.pollers : s.pollers[k].enable}
TimerNames == {t.k : t \in timers}
Kinds(ev) == {ev[i].ev : i \in DOMAIN ev}

\* the step is a run of the change handler
ChangeStep == events' # <<>> /\ Head(events').ev = "change"

\* the step is a run of the change handler on the snapshot it had last
SameSnapshotStep == ChangeStep /\ config' = config

\* in-flight cycles of poller k that were started with configuration cfg
CountCore(bag, k, cfg) ==
    BagCardinality([c \in {x \in DOMAIN bag : x.k = k /\ x.config = cfg}
                       |-> bag[c]])

\* C1: after the change handler has processed a snapshot, the names that
\* hold an active timer in the registry are exactly the names of the
\* snapshot whose enable is not false.
C1_ActiveIsEnabled ==
    /\ DOMAIN pollerIDs = EnabledNames(config)
    /\ TimerNames = EnabledNames(config)

\* C2: a run of the change handler leaves every in-flight cycle in flight
\* with the configuration it started with, and a cycle whose collection
\* succeeds hands exactly one payload to the pipeline, carrying the interval
\* of the configuration it started with.
C2_InFlightKeepsConfig ==
    [][/\ ChangeStep =>
              \A k \in Names, cfg \in PollerConfigs :
                  CountCore(cycles', k, cfg) = CountCore(cycles, k, cfg)
       /\ "finished" \in Kinds(events') =>
              \E c \in BagToSet(cycles) :
                  /\ cycles' = cycles (-) SetToBag({c})
                  /\ Cardinality({i \in DOMAIN events' :
                                     events'[i].ev = "dispatch"}) = 1
                  /\ \A i \in DOMAIN events' :
                         events'[i].ev = "dispatch" =>
                             /\ events'[i].k = c.k
                             /\ events'[i].n = c.config.interval]_vars

\* C2 witness: a cycle has dispatched after its poller left the registry
C2_Witness ==
    \E i \in DOMAIN events :
        /\ events[i].ev = "dispatch"
        /\ events[i].k \notin DOMAIN pollerIDs

\* C3: when the collection of a cycle fails, the failure is logged, the
\* cycle hands no payload to the pipeline and writes no trace, every timer
\* and the registry stay as they are, and no other cycle is disturbed.
C3_FailureIsContained ==
    [][(Kinds(events') \cap {"exception", "promiseException"} # {}) =>
           /\ Kinds(events') \cap {"dispatch", "trace"} = {}
           /\ timers' = timers
           /\ pollerIDs' = pollerIDs
           /\ tracers' = tracers
           /\ \/ cycles' = cycles
              \/ \E c \in BagToSet(cycles) :
                     /\ c.k = events'[1].k
                     /\ cycles' = cycles (-) SetToBag({c})]_vars

\* C3 witness: a rejected collection was logged while the poller's timer is
\* live and a cycle of the other poller is in flight
C3_Witness ==
    /\ events # <<>>
    /\ events[1].ev = "promiseException"
    /\ events[1].k \in TimerNames
    /\ \E c \in BagToSet(cycles) : c.k # events[1].k

\* every registered name has exactly one live timer, the recorded one
OneTimerPerName ==
    /\ \A k \in DOMAIN pollerIDs :
           {t.slot : t \in {x \in timers : x.k = k}} = {pollerIDs[k]}
    /\ TimerNames \subseteq DOMAIN pollerIDs

\* C4: reconciling the snapshot that was reconciled last leaves the same
\* set of registered pollers and exactly one live timer per registered name.
C4_SameSnapshotSameJobs ==
    [][SameSnapshotStep =>
           /\ DOMAIN pollerIDs' = DOMAIN pollerIDs
           /\ OneTimerPerName']_vars

\* C4 witness: the snapshot was reconciled again with both pollers active
C4_Witness ==
    /\ events # <<>>
    /\ events[1].ev = "change"
    /\ events[1].k = "same"
    /\ DOMAIN pollerIDs = Names

\* what the timers of poller k pass to safeProcess
TimerArgs(k) ==
    {[config |-> t.config, tracer |-> t.tracer] : t \in {x \in timers : x.k = k}}

Disabled(s, k) ==
    ~s.present \/ (k \in DOMAIN s.pollers /\ ~s.pollers[k].enable)

\* C6: once a snapshot disables a poller or has no poller section, the
\* poller has no registry entry and no live timer, and no cycle of it starts
\* until a later snapshot names it with enable not false.
C6_DisabledIsStopped ==
    [][\A k \in Names :
           /\ Disabled(config', k) =>
                  k \notin DOMAIN pollerIDs' /\ k \notin TimerNames'
           /\ (events' # <<>> /\ events'[1] = Ev("started", k, 0)) =>
                  ~Disabled(config, k)]_vars

\* C6 witness: the handler disabled an active poller, the other one runs on
C6_Witness ==
    /\ "Disabling" \in Kinds(events)
    /\ timers # {}

\* C7 (as claimed): the payload is handed to the pipeline before the trace
\* writer is written.
C7_DispatchBeforeTrace ==
    \A i, j \in DOMAIN events :
        (events[i].ev = "dispatch" /\ events[j].ev = "trace") => i < j

\* C7 (amended): in a cycle that succeeds and has a trace writer, the trace
\* writer is written first and the payload is handed to the pipeline after.
C7_TraceBeforeDispatch ==
    \A i, j \in DOMAIN events :
        (events[i].ev = "trace" /\ events[j].ev = "dispatch") => i < j

\* C7 witness: a cycle wrote its trace and dispatched
C7_Witness == {"trace", "dispatch"} \subseteq Kinds(events)

\* the servers the change handler of the listener has started
HandlerServers == {id \in DOMAIN servers : servers[id].by = "handler"}

\* C8: the change handler starts at most one listener; a notification that
\* arrives while a listener is recorded starts no server and leaves the
\* recorded listener as it is.
C8_OneListener ==
    [][/\ Cardinality(HandlerServers') <= 1
       /\ (lsOut' # <<>> /\ lsOut'[1].ev = "changeEvent" /\ listener # {}) =>
              servers' = servers /\ listener' = listener]_vars

\* C8 witness: a notification arrived while the listener was recorded
C8_Witness ==
    /\ "Already listening" \in Kinds(lsOut)
    /\ listener # {}

\* C9: an error of the listener's server never escapes as an uncaught
\* exception.
C9_NoUncaughtException == ~uncaught

\* the servers that listen on port p
Bound(sv, p) == {id \in DOMAIN sv : sv[id].port = p /\ sv[id].state = "listening"}

\* the port start was called with and the server it returned
CalledPort(out) == {out[i].k : i \in {x \in DOMAIN out : out[x].ev = "start"}}
Returned(out) == {out[i].n : i \in {x \in DOMAIN out : out[x].ev = "return"}}

\* C10 (as claimed): start(port) called while a listener is bound to the
\* port returns that listener and creates no server.
C10_StartIsIdempotent ==
    [][\A p \in CalledPort(lsOut') :
           Bound(servers, p) # {} =>
               /\ DOMAIN servers' = DOMAIN servers
               /\ Returned(lsOut') \subseteq Bound(servers, p)]_vars

\* C10 (amended): every call of start(port) creates a new server and
\* returns it, also while a listener is bound to the port.
C10_StartAlwaysCreates ==
    [][CalledPort(lsOut') # {} =>
           /\ Returned(lsOut') \cap DOMAIN servers = {}
           /\ DOMAIN servers' = DOMAIN servers \cup Returned(lsOut')
           /\ Cardinality(Returned(lsOut')) = 1]_vars

\* C10 witness: start returned a second server for a port that has a
\* listening server
C10_Witness ==
    \E id \in Returned(lsOut) :
        /\ id \in DOMAIN servers
        /\ Bound(servers, servers[id].port) \ {id} # {}

\* ------------------------------------------- properties of normalize.js
\* the well known wrapper keys, and a node that is one wrapper key around
\* a value
WrapperKeys ==
    {<<"nestedStats">>, <<"value">>, <<"description">>, <<"color">>}
IsWrapper(t) == IsObj(t) /\ \E k \in WrapperKeys : DOMAIN t.obj = {k}
Wrapped(t) == t.obj[CHOOSE k \in DOMAIN t.obj : TRUE]
RECURSIVE Unwrapped(_)
Unwrapped(t) == IF IsWrapper(t) THEN Unwrapped(Wrapped(t)) ELSE t
IsScalar(t) == IsStr(t) \/ IsNum(t) \/ IsBool(t) \/ IsNull(t)

\* the steps after the reduction, in the order of the contract
StepsInOrder ==
    <<"key", "filterByKeys", "renameKeysByPattern", "runCustomFunction">>
StepOf(step, v, o) ==
    CASE step = "key" -> getDataByKey(v, o.key.v)
      [] step = "filterByKeys" -> filterDataByKeys(v, o.filterByKeys.v)
      [] step = "renameKeysByPattern" ->
             renameKeysInData(v, o.renameKeysByPattern.v)
      [] step = "runCustomFunction" ->
             runCustomFunction(v, [func |-> o.runCustomFunction.v.name,
                                   args |-> o.runCustomFunction.v.args])
RECURSIVE Composed(_, _, _)
Composed(v, steps, o) ==
    IF steps = <<>> \/ Raised(v) THEN v
    ELSE Composed(IF o[Head(steps)].set THEN StepOf(Head(steps), v, o) ELSE v,
                  Tail(steps), o)

\* C11: normalizeData is reduce (with convertArrayToMap), then the steps
\* descend, filter, rename and custom function in this order, each applied
\* when its option is present and skipped otherwise; the custom function
\* gets the output of the steps before it.
C11_FixedOrder ==
    op = "normalizeData" =>
        result = Composed(
            reduceData(data, [convertArrayToMap |-> options.convertArrayToMap]),
            StepsInOrder, options)

\* C11 witness: filter, rename and custom function all ran, and renaming
\* before filtering would have given another result
C11_Witness ==
    /\ op = "normalizeData"
    /\ options.filterByKeys.set
    /\ options.renameKeysByPattern.set
    /\ options.runCustomFunction.set
    /\ ~Raised(result)
    /\ result.args["data"] # Obj(EmptyMap)
    /\ result # normalizeData_RenameFirst(data, options)

\* C12: a node that is one wrapper key around a value reduces to the
\* reduction of that value, at the root and under a key of an object, so
\* nested wrappers around a value reduce to the value without them.
C12_Transparency ==
    op = "reduceData" =>
        /\ IsWrapper(data) =>
               /\ result = reduceData(Wrapped(data), options)
               /\ result = reduceData(Unwrapped(data), options)
               /\ (IsScalar(Unwrapped(data)) /\ ~IsNull(Unwrapped(data)))
                      => result = Unwrapped(data)
        /\ (/\ IsObj(data)
            /\ ~IsWrapper(data)
            /\ <<"entries">> \notin DOMAIN data.obj
            /\ ~Raised(result)) =>
               \A k \in DOMAIN data.obj :
                   IsWrapper(data.obj[k]) =>
                       result.obj[k] = reduceData(Unwrapped(data.obj[k]), options)

\* C12 witness: two nested wrappers around a string were reduced to it
C12_Witness ==
    /\ op = "reduceData"
    /\ IsWrapper(data)
    /\ IsWrapper(Wrapped(data))
    /\ DOMAIN data.obj # DOMAIN Wrapped(data).obj
    /\ result = Str(<<"5">>)

\* the key sets of the objects of a value, at every depth
RECURSIVE KeySets(_)
KeySets(t) ==
    IF IsObj(t)
    THEN {DOMAIN t.obj} \cup UNION {KeySets(t.obj[k]) : k \in DOMAIN t.obj}
    ELSE IF IsArr(t) THEN UNION {KeySets(t.arr[i]) : i \in DOMAIN t.arr}
    ELSE {}
HasWrapperKey(t) == \E keys \in KeySets(t) : keys \cap WrapperKeys # {}
HasLoneWrapperKey(t) ==
    \E keys \in KeySets(t) : \E k \in WrapperKeys : keys = {k}

\* C13 (as claimed): no object of the tree reduce returns has a key named
\* nestedStats, value, description or color.
C13_NoWrapperKeyRemains ==
    (op = "reduceData" /\ ~Raised(result)) => ~HasWrapperKey(result)

\* C13 (amended): no object of the tree reduce returns has a wrapper key
\* as its only key.
C13_NoLoneWrapperKeyRemains ==
    (op = "reduceData" /\ ~Raised(result)) => ~HasLoneWrapperKey(result)

\* C13 witness: the object had two wrapper keys and a wrapper under one of
\* them; the keys remain, the wrapper is gone
C13_Witness ==
    /\ op = "reduceData"
    /\ IsObj(data)
    /\ DOMAIN data.obj = {<<"value">>, <<"description">>}
    /\ IsWrapper(data.obj[<<"value">>])
    /\ IsObj(result)
    /\ DOMAIN result.obj = DOMAIN data.obj
    /\ ~HasWrapperKey(result.obj[<<"value">>])

\* C14: reduce applied to the tree reduce returned returns the same tree.
C14_Idempotent ==
    (op = "reduceData" /\ ~Raised(result)) => reduceData(result, options) = result

\* C14 witness: the first reduction changed a tree with nested wrappers and an
\* entries map
C14_Witness ==
    /\ op = "reduceData"
    /\ ~Raised(result)
    /\ result # data
    /\ (\E keys \in KeySets(data) : <<"entries">> \in keys)
    /\ HasLoneWrapperKey(data)
    /\ reduceData(result, options) = result

\* C15: the device statistics {entries: {'https://localhost/mgmt/tm/sys/x/
\* 0.0/stats': {nestedStats: {entries: {value: {description: '5'}}}}}}
\* reduce to {'sys/x/0.0/stats': '5'}.
C15_DeviceStatsReduced ==
    (op = "reduceData" /\ data = DeviceStats) =>
        result = Obj(<<"sys/x/0.0/stats">> :> Str(<<"5">>))

\* C15 witness: the device statistics were reduced, whatever the array
\* option
C15_Witness ==
    /\ op = "reduceData"
    /\ data = DeviceStats
    /\ options.convertArrayToMap.set
    /\ IsObj(result)
    /\ DOMAIN result.obj = {<<"sys/x/0.0/stats">>}

\* a prefix removed from a key only where the key starts with it
WithoutPrefix(k, piece) == IF k # <<>> /\ Head(k) = piece THEN Tail(k) ELSE k
PrefixStripped(k) ==
    WithoutPrefix(WithoutPrefix(k, "https://localhost/"), "mgmt/tm/")
\* an entries map whose children are strings, numbers or booleans and whose
\* keys stay distinct and plain once stripped
PlainEntries(t) ==
    /\ IsObj(t)
    /\ DOMAIN t.obj = {<<"entries">>}
    /\ IsObj(t.obj[<<"entries">>])
    /\ LET e == t.obj[<<"entries">>].obj
       IN  /\ DOMAIN e # {}
           /\ \A k \in DOMAIN e : IsScalar(e[k]) /\ ~IsNull(e[k])
           /\ \A k \in DOMAIN e : PrefixStripped(k) \notin WrapperKeys \cup {<<"entries">>}
           /\ \A j, k \in DOMAIN e : PrefixStripped(j) = PrefixStripped(k) => j = k

\* C16: entries expansion removes 'https://localhost/' from a child key
\* only where the key starts with it, then 'mgmt/tm/' only where the rest
\* starts with it; a key that has either elsewhere keeps it; the child's
\* value is kept under the stripped key.
C16_StripsPrefixesOnly ==
    (op = "reduceData" /\ PlainEntries(data)) =>
        LET e == data.obj[<<"entries">>].obj
        IN  result = Obj([n \in {PrefixStripped(k) : k \in DOMAIN e} |->
                            e[CHOOSE k \in DOMAIN e : PrefixStripped(k) = n]])

\* C17: reduce returns a string, a number, a boolean and null unchanged,
\* without raising, at the root, as the value of an object key, as an
\* array element and inside a wrapper.
C17_ScalarsUnchanged ==
    (op = "reduceData" /\ ~ConvertRequired(options)) =>
        /\ IsScalar(data) => result = data
        /\ (IsWrapper(data) /\ IsScalar(Wrapped(data))) => result = Wrapped(data)
        /\ (/\ IsObj(data)
            /\ DOMAIN data.obj = {<<"b">>}
            /\ IsScalar(data.obj[<<"b">>])) => result = data
        /\ (IsArr(data) /\ \A i \in DOMAIN data.arr : IsScalar(data.arr[i]))
               => result = data

\* the object an array is converted to: every element, whole, under its
\* (prefixed) key field value
KeyedBy(arr, keyField, prefix) ==
    Obj([key \in {prefix \o arr[i].obj[keyField].str : i \in DOMAIN arr} |->
            arr[CHOOSE i \in DOMAIN arr :
                    /\ prefix \o arr[i].obj[keyField].str = key
                    /\ \A j \in (i + 1)..Len(arr) :
                           prefix \o arr[j].obj[keyField].str # key]])

\* C18: an array is converted to the object keyed by the key field and that
\* object is reduced when convertArrayToMap is set and has a key field;
\* otherwise the result is the array of the reduced elements, in order.
C18_ArrayNode ==
    (op = "reduceData" /\ IsArr(data)) =>
        IF /\ options.convertArrayToMap.set
           /\ options.convertArrayToMap.v.keyName # <<>>
        THEN result = reduceData(
                 KeyedBy(data.arr, options.convertArrayToMap.v.keyName,
                         options.convertArrayToMap.v.keyNamePrefix), options)
        ELSE IF \E i \in DOMAIN data.arr : Raised(reduceData(data.arr[i], options))
        THEN Raised(result)
        ELSE /\ IsArr(result)
             /\ Len(result.arr) = Len(data.arr)
             /\ \A i \in DOMAIN data.arr :
                    result.arr[i] = reduceData(data.arr[i], options)

\* C18 witness: an array was converted under prefixed keys, each element
\* whole but for the wrappers reduced inside it
C18_Witness ==
    /\ op = "reduceData"
    /\ IsArr(data)
    /\ Len(data.arr) = 2
    /\ options.convertArrayToMap.set
    /\ options.convertArrayToMap.v.keyNamePrefix = <<"a/">>
    /\ IsObj(result)
    /\ DOMAIN result.obj = {<<"a/", "5">>, <<"a/", "b">>}
    /\ DOMAIN result.obj[<<"a/", "5">>].obj = {<<"name">>, <<"b">>}

\* what the path leads to: the value at the path, or the 'missing'
\* sentinel once a segment is no key of the node reached
HasOwn(t, seg) == (IsObj(t) \/ IsArr(t)) /\ seg \in OwnKeys(t)
RECURSIVE Found(_, _)
Found(t, segs) ==
    IF segs = <<>> THEN t
    ELSE IF HasOwn(t, Head(segs)) THEN Found(OwnValue(t, Head(segs)), Tail(segs))
    ELSE MissingKey

RenamedBy(k, e) ==
    IF Occurs(e.trigger, k) /\ Match(k, e.regex).set
    THEN Match(k, e.regex).v[e.group + 1]
    ELSE k

\* C20: with a table of one entry, a key that has the trigger as a
\* substring and that the regex matches becomes the capture group of the
\* match, every other key stays; the value under a key is renamed by the
\* same rule.
C20_OneEntryRename ==
    (/\ op = "renameKeysInData"
     /\ Len(options.renameKeysByPattern.v) = 1
     /\ IsObj(data)) =>
        LET table == options.renameKeysByPattern.v
            below(k) == renameKeysInData(data.obj[k], table)
        IN  IF \E k \in DOMAIN data.obj : Raised(below(k))
            THEN Raised(result)
            ELSE /\ IsObj(result)
                 /\ DOMAIN result.obj = {RenamedBy(k, table[1]) : k \in DOMAIN data.obj}
                 /\ \A k \in DOMAIN data.obj :
                        result.obj[RenamedBy(k, table[1])] \in
                            {below(j) : j \in {x \in DOMAIN data.obj :
                                RenamedBy(x, table[1]) = RenamedBy(k, table[1])}}

\* C20 witness: a key with the trigger and a match was renamed to capture
\* group 1 under a key that stayed
C20_Witness ==
    /\ op = "renameKeysInData"
    /\ Len(options.renameKeysByPattern.v) = 1
    /\ options.renameKeysByPattern.v[1].group = 1
    /\ IsObj(data)
    /\ DOMAIN data.obj = {<<"b">>}
    /\ IsObj(data.obj[<<"b">>])
    /\ DOMAIN data.obj[<<"b">>].obj = {<<"a/", "mgmt/tm/", "b">>}
    /\ result = Obj(<<"b">> :> Obj(<<"b">> :> data.obj[<<"b">>].obj[<<"a/", "mgmt/tm/", "b">>]))

\* the key the first entry that renames k gives it
FirstRenamedKey(k, patterns) ==
    LET hits == {i \in DOMAIN patterns : Renames(k, patterns[i])}
    IN  GroupOf(k, patterns[CHOOSE i \in hits : \A j \in hits : i <= j])
ManyRename(k, patterns) ==
    Cardinality({i \in DOMAIN patterns : Renames(k, patterns[i])}) >= 2

\* C21: a key that two or more entries of the table rename (trigger a
\* substring of the key, regex matching it) gets the key of the first such
\* entry in the declared order; the later entries do not change it.
C21_FirstMatchWins ==
    (/\ op = "renameKeysInData"
     /\ IsObj(data)
     /\ ~Raised(result)) =>
        \A k \in DOMAIN data.obj :
            ManyRename(k, options.renameKeysByPattern.v) =>
                FirstRenamedKey(k, options.renameKeysByPattern.v)
                    \in DOMAIN result.obj

\* the custom function of the call and its named arguments
CustomName == options.runCustomFunction.v.name
CustomArgs == options.runCustomFunction.v.args
CustomStep ==
    /\ op \in {"runCustomFunction", "normalizeData"}
    /\ options.runCustomFunction.set

\* C22: when the named arguments have a key called data, the call fails
\* with an error, no function of the table is invoked and no transformed
\* value is returned, for runCustomFunction and for the normalizeData that
\* runs it.
C22_ReservedArgument ==
    (CustomStep /\ "data" \in DOMAIN CustomArgs) =>
        /\ Raised(result)
        /\ invoked = <<>>
        /\ op = "runCustomFunction" =>
               result = Error("Named argument (data) is not allowed")

\* C22 witness: normalizeData reduced a tree, reached the custom function
\* with an argument called data and failed on it
C22_Witness ==
    /\ op = "normalizeData"
    /\ options.runCustomFunction.set
    /\ "data" \in DOMAIN CustomArgs
    /\ CustomName \in TransformNames
    /\ IsObj(data)
    /\ result = Error("Named argument (data) is not allowed")
    /\ invoked = <<>>

\* C23: for every name that is not a function of the table, the names of
\* the properties every object inherits included, runCustomFunction fails
\* with an error: no function is invoked and no value is returned.
C23_UnregisteredFails ==
    (/\ op = "runCustomFunction"
     /\ CustomName \notin TransformNames) =>
        /\ Raised(result)
        /\ invoked = <<>>

\* C24: when the name is a function of the table and no argument is called
\* data, the function is invoked exactly once with the data and the named
\* arguments; what it returns is the result, and what it throws reaches
\* the caller as an error, never as a returned value.
C24_InvokedOnce ==
    (/\ op = "runCustomFunction"
     /\ CustomName \in TransformNames
     /\ "data" \notin DOMAIN CustomArgs) =>
        /\ Len(invoked) = 1
        /\ invoked[1].name = CustomName
        /\ DOMAIN invoked[1].args = DOMAIN CustomArgs \cup {"data"}
        /\ invoked[1].args["data"] = data
        /\ \A k \in DOMAIN CustomArgs : invoked[1].args[k] = CustomArgs[k]
        /\ IF Throws(CustomName)
           THEN result = Error("runCustomFunction failed: thrown")
           ELSE result = Applied(CustomName, invoked[1].args)

\* C24 witness: a function of the table was invoked once with the data and
\* the argument x, threw, and the caller got the wrapped error
C24_Witness ==
    /\ op = "runCustomFunction"
    /\ Throws(CustomName)
    /\ DOMAIN CustomArgs = {"x"}
    /\ IsObj(data)
    /\ Len(invoked) = 1
    /\ invoked[1].args["data"] = data
    /\ Raised(result)

\* the comma-separated segments of an event line, and the pair of a
\* segment: the key is the text before the first '=', the value the text
\* after it without the quotes around it
SegmentsOf(line) == Split(RemoveAll(line, "\n"), ",")
HasEquals(seg) == \E i \in DOMAIN seg : seg[i] = "="
FirstEquals(seg) ==
    CHOOSE i \in DOMAIN seg : seg[i] = "=" /\ \A j \in 1..(i - 1) : seg[j] # "="
PairKey(seg) == SubSeq(seg, 1, FirstEquals(seg) - 1)
Unquoted(v) ==
    LET from == IF v # <<>> /\ Head(v) = "\"" THEN 2 ELSE 1
        to == IF Len(v) >= from /\ v[Len(v)] = "\"" THEN Len(v) - 1 ELSE Len(v)
    IN  SubSeq(v, from, to)
PairValue(seg) == Str(Unquoted(SubSeq(seg, FirstEquals(seg) + 1, Len(seg))))
RECURSIVE PairsOf(_, _)
PairsOf(segs, ret) ==
    IF segs = <<>> \/ ~HasEquals(Head(segs)) THEN ret
    ELSE PairsOf(Tail(segs), (PairKey(Head(segs)) :> PairValue(Head(segs))) @@ ret)

\* C25: normalizeEvent never raises: it returns the pair of every segment
\* of a line whose segments are all KEY="value", and the pairs of the
\* segments before the first malformed one otherwise.
C25_FailSoft ==
    op = "normalizeEvent" =>
        /\ IsObj(result)
        /\ IsStr(data) => result = Obj(PairsOf(SegmentsOf(data.str), EmptyMap))

\* C26: a segment is split on its first '=' only: the value of its key is
\* everything after that '=' without the quotes around it, a '=' in it
\* included.
C26_FirstEqualsOnly ==
    (op = "normalizeEvent" /\ IsStr(data)) =>
        LET segs == SegmentsOf(data.str)
        IN  \A i \in DOMAIN segs :
                (/\ \A j \in 1..i : HasEquals(segs[j])
                 /\ \A j \in DOMAIN segs :
                        (j # i /\ HasEquals(segs[j])) =>
                            PairKey(segs[j]) # PairKey(segs[i])) =>
                    /\ PairKey(segs[i]) \in DOMAIN result.obj
                    /\ result.obj[PairKey(segs[i])] = PairValue(segs[i])

\* the fields of an event line: the texts between the commas that are not
\* inside double quotes
RECURSIVE Scanned(_, _, _, _)
Scanned(s, quoted, field, fields) ==
    IF s = <<>> THEN Append(fields, field)
    ELSE IF Head(s) = "\""
    THEN Scanned(Tail(s), ~quoted, Append(field, Head(s)), fields)
    ELSE IF Head(s) = "," /\ ~quoted
    THEN Scanned(Tail(s), quoted, <<>>, Append(fields, field))
    ELSE Scanned(Tail(s), quoted, Append(field, Head(s)), fields)
FieldsOf(line) == Scanned(RemoveAll(line, "\n"), FALSE, <<>>, <<>>)
HasComma(seg) == \E i \in DOMAIN seg : seg[i] = ","

\* C27: on a line of KEY="value" fields, a field whose quoted value has a
\* comma gives its key the whole value, comma included, and the key of
\* every field after it is in the record.
C27_QuotedComma ==
    (op = "normalizeEvent" /\ IsStr(data)) =>
        LET fields == FieldsOf(data.str)
        IN  (\A i \in DOMAIN fields : HasEquals(fields[i])) =>
                \A i \in DOMAIN fields :
                    HasComma(fields[i]) =>
                        /\ PairKey(fields[i]) \in DOMAIN result.obj
                        /\ result.obj[PairKey(fields[i])] = PairValue(fields[i])
                        /\ \A j \in (i + 1)..Len(fields) :
                               PairKey(fields[j]) \in DOMAIN result.obj

\* the in-flight cycles of poller k
CyclesOf(bag, k) ==
    BagCardinality([c \in {x \in DOMAIN bag : x.k = k} |-> bag[c]])

\* the step starts a cycle of poller k that is in flight after it
StartsCycle(k) == CyclesOf(cycles', k) = CyclesOf(cycles, k) + 1

\* C29: when the change handler processes a snapshot that names a
\* registered poller with enable not false, the poller has exactly one
\* timer afterwards, the recorded one, and the timer passes the new
\* configuration (interval included) and the trace writer of the new
\* configuration; a cycle that starts is given what the timer of its
\* poller passes at that time.
C29_UpdatedInPlace ==
    [][/\ ChangeStep =>
              \A k \in DOMAIN pollerIDs \cap EnabledNames(config') :
                  /\ k \in DOMAIN pollerIDs'
                  /\ {t.slot : t \in {x \in timers' : x.k = k}} = {pollerIDs'[k]}
                  /\ TimerArgs(k)' =
                         {[config |-> config'.pollers[k],
                           tracer |-> TracerOf(k, config'.pollers[k])]}
       /\ \A k \in Names :
              StartsCycle(k) =>
                  \E t \in timers :
                      /\ t.k = k
                      /\ cycles' = cycles (+) SetToBag({CycleOf(t)})]_vars

\* C29 witness: a cycle of a poller is in flight with the configuration
\* the poller had before it was updated, the one timer of the poller passes
\* the new configuration, and a cycle has started with it
C29_Witness ==
    /\ events # <<>>
    /\ events[1].ev = "started"
    /\ \E k \in DOMAIN pollerIDs :
       \E c1 \in BagToSet(cycles), c2 \in BagToSet(cycles) :
           /\ c1.k = k
           /\ c2.k = k
           /\ c1.config # c2.config
           /\ c2.config = config.pollers[k]
           /\ TimerArgs(k) = {[config |-> c2.config, tracer |-> c2.tracer]}

\* C30: at most one collection cycle of a poller is in flight at any time.
C30_OneCycleInFlight == \A k \in Names : CyclesOf(cycles, k) <= 1

\* C31: after a run of the change handler the registered trace writers are
\* exactly the writers of the pollers the run started or updated: every
\* other writer of the class has been removed, and none of these has.
C31_StaleWritersSwept ==
    [][ChangeStep => tracers' = Touched(config')]_vars

\* C35: every live timer is the handle the registry records under the name
\* of its poller, and every name of the registry records a live timer: no
\* timer fires that a later run of the change handler cannot stop.
C35_TimersRecorded ==
    /\ \A t \in timers : t.k \in DOMAIN pollerIDs /\ pollerIDs[t.k] = t.slot
    /\ \A k \in DOMAIN pollerIDs : \E t \in timers : t.k = k /\ t.slot = pollerIDs[k]

\* C35 witness: a poller was stopped and deleted while the timer of the
\* other one, updated with a new handle, is the recorded one
C35_Witness ==
    /\ events # <<>>
    /\ events[1].ev = "change"
    /\ "Disabling" \in Kinds(events)
    /\ "setInterval" \in Kinds(events)
    /\ "Updating" \in Kinds(events)
    /\ Cardinality(timers) = 1
    /\ \A t \in timers : pollerIDs = (t.k :> t.slot)

\* C36: the trace writer a live timer passes to its cycles is registered:
\* no timer holds a writer that a run of the change handler has removed.
C36_WriterOfTimerRegistered ==
    \A t \in timers : t.tracer # NullTracer => t.tracer.live

\* C38: the expansion of an entries map of two or more keys keeps every
\* entry: the result has as many keys as the entries map.
C38_NoEntryLost ==
    (/\ op = "reduceData"
     /\ HasEntries(data)
     /\ IsObj(data.obj[<<"entries">>])
     /\ Cardinality(DOMAIN data.obj[<<"entries">>].obj) >= 2
     /\ ~Raised(result)) =>
        /\ IsObj(result)
        /\ Cardinality(DOMAIN result.obj) =
               Cardinality(DOMAIN data.obj[<<"entries">>].obj)

\* the bytes the connections delivered, and the complete lines in them:
\* the texts that a newline ends
RECURSIVE Delivered(_)
Delivered(chunks) ==
    IF chunks = <<>> THEN <<>> ELSE Head(chunks) \o Delivered(Tail(chunks))
CompleteLines(bytes) ==
    LET parts == Split(bytes, "\n") IN SubSeq(parts, 1, Len(parts) - 1)

\* C37: what is handed to event processing is the complete lines of the
\* bytes delivered, each once and whole, however the bytes were cut into
\* chunks.
C37_WholeLines ==
    [i \in DOMAIN received |-> RemoveAll(received[i], "\n")]
        = CompleteLines(Delivered(received))

\* the step ends cycle c
Ends(c) == BagIn(c, cycles) /\ cycles' = cycles (-) SetToBag({c})
\* the entries of an output of the kind
Entries(out, kind) == {i \in DOMAIN out : out[i].ev = kind}

\* C32: a scheduled cycle whose collection succeeds hands exactly one
\* payload to the pipeline, as a system poller event; its
\* telemetryServiceInfo has the interval of the configuration the cycle
\* started with and a cycleStart that is not later than its cycleEnd.
C32_ScheduledPayload ==
    [][\A c \in BagToSet(cycles) :
           (Ends(c) /\ c.process /\ "finished" \in Kinds(events')) =>
               /\ Cardinality(Entries(events', "dispatch")) = 1
               /\ \A i \in Entries(events', "dispatch") :
                      /\ events'[i].k = c.k
                      /\ events'[i].type = SYSTEM_POLLER
                      /\ events'[i].data.telemetryEventCategory = SYSTEM_POLLER
                      /\ events'[i].data.telemetryServiceInfo.pollingInterval
                             = c.config.interval
                      /\ events'[i].data.telemetryServiceInfo.cycleStart
                             = c.start
                      /\ events'[i].data.telemetryServiceInfo.cycleStart
                             <= events'[i].data.telemetryServiceInfo.cycleEnd]_vars

\* C32 witness: a payload went to the pipeline whose cycle ended after the
\* clock had moved since it started
C32_Witness ==
    \E i \in Entries(events, "dispatch") :
        /\ events[i].data.telemetryServiceInfo.cycleStart
               < events[i].data.telemetryServiceInfo.cycleEnd
        /\ events[i].data.telemetryServiceInfo.pollingInterval = 2

\* C33: a collection requested for a named poller hands nothing to the
\* pipeline and writes no trace, when it is requested and when it ends; it
\* leaves the registry, the timers and the trace writers as they are; when
\* it succeeds, the requester gets the collected data.
C33_RequestFrame ==
    [][/\ (events' # <<>> /\ events'[1].ev = "request") =>
              /\ Kinds(events') \cap {"dispatch", "trace"} = {}
              /\ UNCHANGED <<config, pollerIDs, timers, tracers>>
       /\ \A c \in BagToSet(cycles) :
              (Ends(c) /\ c.process = FALSE) =>
                  /\ Kinds(events') \cap {"dispatch", "trace"} = {}
                  /\ UNCHANGED <<config, pollerIDs, timers, tracers>>
                  /\ Cardinality(Entries(events', "respond")) = 1
                  /\ "finished" \in Kinds(events') =>
                         \A i \in Entries(events', "respond") :
                             /\ events'[i].n = 200
                             /\ events'[i].k = c.k
                             /\ events'[i].data.telemetryServiceInfo.pollingInterval
                                    = c.config.interval]_vars

\* C33 witness: the requester got the data of a poller that has a timer and
\* a registered trace writer, and nothing was traced or dispatched
C33_Witness ==
    /\ \E i \in Entries(events, "respond") :
           /\ events[i].n = 200
           /\ events[i].k \in TimerNames
           /\ events[i].k \in tracers
           /\ config.pollers[events[i].k].trace
    /\ Kinds(events) \cap {"dispatch", "trace"} = {}

\* C34: with no change event to come, the timer of every poller the
\* snapshot names with enable not false fires again and again, whatever
\* became of the cycles it started before.
C34_FiresAgainAndAgain ==
    \A k \in Names :
        (k \in EnabledNames(config)) => []<><<TimerFires(k)>>_vars

\* C34 witness: the timer of an enabled poller has fired while two cycles
\* it started before are under way, after a start that failed
C34_Witness ==
    \E k \in EnabledNames(config) :
        /\ events = <<Ev("started", k, 0), Ev("exception", k, 0)>>
        /\ \E c \in BagToSet(cycles) : c.k = k /\ c.process /\ cycles[c] >= 2

====
